---- MODULE Spec2Model ----
(***************************************************************************)
(* Model of the resume text-to-structure pipeline of app/resume_parser.py. *)
(*                                                                         *)
(* A Python str is a sequence of characters; a character is a one-element  *)
(* string token.  Characters outside ASCII are written by name ("e_circ"   *)
(* is U+00EA, "endash" is U+2013, ...).  Python's None is the value None   *)
(* below, which is no str of the alphabet.                                 *)
(***************************************************************************)
EXTENDS Naturals, Sequences, FiniteSets, TLC

VARIABLES pc, filename, file_text, text, lines, sections, contact,
          experiences, educations, skills, projects, professional_summary,
          result, error, section_keywords, earlier

vars == <<pc, filename, file_text, text, lines, sections, contact,
          experiences, educations, skills, projects, professional_summary,
          result, error, section_keywords, earlier>>

(***************************************************************************)
(* Characters and the str methods the parser uses.                         *)
(***************************************************************************)

None == <<"None">>

LowerLetters ==
    <<"a", "b", "c", "d", "e", "f", "g", "h", "i", "j", "k", "l", "m", "n",
      "o", "p", "q", "r", "s", "t", "u", "v", "w", "x", "y", "z",
      "e_circ", "o_acute", "a_acute", "c_ced", "a_tilde", "e_acute", "o_tilde">>

UpperLetters ==
    <<"A", "B", "C", "D", "E", "F", "G", "H", "I", "J", "K", "L", "M", "N",
      "O", "P", "Q", "R", "S", "T", "U", "V", "W", "X", "Y", "Z",
      "E_CIRC", "O_ACUTE", "A_ACUTE", "C_CED", "A_TILDE", "E_ACUTE", "O_TILDE">>

Digits == {"0", "1", "2", "3", "4", "5", "6", "7", "8", "9"}

Range(f) == {f[i] : i \in DOMAIN f}

\* \w of a str pattern: letters, digits and the underscore.
WordChars == Range(LowerLetters) \cup Range(UpperLetters) \cup Digits \cup {"_"}

\* \s, and what str.strip() removes.
Whitespace == {" ", "\t", "\n", "\r"}

\* Where str.splitlines() breaks a text.
LineBreaks == {"\n", "\r"}

Punctuation == {",", ";", ":", "-", "endash", ".", "@", "+", "/", "(", ")"}

Alphabet == WordChars \cup Whitespace \cup Punctuation

\* str.lower() of one character.
LowerChar(c) ==
    IF \E i \in DOMAIN UpperLetters : UpperLetters[i] = c
    THEN LowerLetters[CHOOSE i \in DOMAIN UpperLetters : UpperLetters[i] = c]
    ELSE c

UpperChar(c) ==
    IF \E i \in DOMAIN LowerLetters : LowerLetters[i] = c
    THEN UpperLetters[CHOOSE i \in DOMAIN LowerLetters : LowerLetters[i] = c]
    ELSE c

\* str.lower()
Lower(s) == [i \in DOMAIN s |-> LowerChar(s[i])]

\* s[i:] and s[:i] with 0-based Python offsets.
From(s, i) == SubSeq(s, i + 1, Len(s))
UpTo(s, i) == SubSeq(s, 1, i)

\* str.startswith / str.endswith
StartsWith(s, p) == Len(p) <= Len(s) /\ SubSeq(s, 1, Len(p)) = p
EndsWith(s, p) == Len(p) <= Len(s) /\ SubSeq(s, Len(s) - Len(p) + 1, Len(s)) = p

\* Python's `p in s` for strs: the offsets at which p occurs in s.
Occurrences(p, s) ==
    {i \in 0..(Len(s) - Len(p)) : SubSeq(s, i + 1, i + Len(p)) = p}
Contains(s, p) == Len(p) <= Len(s) /\ Occurrences(p, s) /= {}

\* str.strip(chars): drop the characters of cs from both ends.
RECURSIVE LStrip(_, _)
LStrip(s, cs) ==
    IF s /= <<>> /\ Head(s) \in cs THEN LStrip(Tail(s), cs) ELSE s
RECURSIVE RStrip(_, _)
RStrip(s, cs) ==
    IF s /= <<>> /\ s[Len(s)] \in cs THEN RStrip(UpTo(s, Len(s) - 1), cs) ELSE s
StripChars(s, cs) == RStrip(LStrip(s, cs), cs)
\* str.strip()
Strip(s) == StripChars(s, Whitespace)

\* sep.join(parts)
RECURSIVE Join(_, _)
Join(sep, parts) ==
    IF parts = <<>> THEN <<>>
    ELSE IF Len(parts) = 1 THEN parts[1]
    ELSE parts[1] \o sep \o Join(sep, Tail(parts))

Min(S) == CHOOSE k \in S : \A m \in S : k <= m
Max(S) == CHOOSE k \in S : \A m \in S : m <= k

\* str.split(sep) for a non-empty separator: every piece, empty ones included.
RECURSIVE Split(_, _)
RECURSIVE SplitAt(_, _, _)
Split(s, sep) ==
    IF ~Contains(s, sep) THEN <<s>> ELSE SplitAt(s, sep, Min(Occurrences(sep, s)))
SplitAt(s, sep, i) == <<UpTo(s, i)>> \o Split(From(s, i + Len(sep)), sep)

\* str.split(sep, maxsplit=1)
SplitOnceAt(s, sep, i) == <<UpTo(s, i), From(s, i + Len(sep))>>
SplitOnce(s, sep) ==
    IF ~Contains(s, sep) THEN <<s>> ELSE SplitOnceAt(s, sep, Min(Occurrences(sep, s)))

\* str.splitlines(): break at each line break ("\r\n" is one break); a
\* break at the very end opens no further line.
Breaks(s) == {k \in DOMAIN s : s[k] \in LineBreaks}
BreakWidth(s, i) == IF s[i] = "\r" /\ i < Len(s) /\ s[i + 1] = "\n" THEN 2 ELSE 1
RECURSIVE SplitLines(_)
RECURSIVE SplitLinesAt(_, _)
SplitLines(s) ==
    IF s = <<>> THEN <<>>
    ELSE IF Breaks(s) = {} THEN <<s>>
    ELSE SplitLinesAt(s, Min(Breaks(s)))
SplitLinesAt(s, i) ==
    <<UpTo(s, i - 1)>> \o SplitLines(From(s, i - 1 + BreakWidth(s, i)))

\* [x.strip() for x in xs]
StripAll(xs) == [i \in DOMAIN xs |-> Strip(xs[i])]

\* [x for x in xs if x]
NonEmpty(xs) == SelectSeq(xs, LAMBDA x : x /= <<>>)

\* [x for x in xs if x.strip()]
NonBlank(xs) == SelectSeq(xs, LAMBDA x : Strip(x) /= <<>>)

(***************************************************************************)
(* The re module: a backtracking matcher.  A pattern is a tree; Ends gives *)
(* the offsets at which a match of the pattern begun at offset i can end,  *)
(* in the order the backtracking matcher tries them (greedy first).        *)
(***************************************************************************)

Cls(S) == [t |-> "cls", s |-> S]
Lit(w) == [t |-> "lit", w |-> w]
Cat(a, b) == [t |-> "cat", a |-> a, b |-> b]
Alt(a, b) == [t |-> "alt", a |-> a, b |-> b]
\* a{lo,hi}, greedy
Rep(a, lo, hi) == [t |-> "rep", a |-> a, lo |-> lo, hi |-> hi, unbounded |-> FALSE]
\* a{lo,}, greedy: a* is Star(a, 0), a+ is Star(a, 1)
Star(a, lo) == [t |-> "rep", a |-> a, lo |-> lo, hi |-> 0, unbounded |-> TRUE]
Opt(a) == Rep(a, 0, 1)
\* \b
WordB == [t |-> "wordb"]

\* One character, under re.IGNORECASE
ClsI(c) == Cls({c, LowerChar(c), UpperChar(c)})

RECURSIVE CatAll(_)
CatAll(rs) == IF Len(rs) = 1 THEN rs[1] ELSE Cat(rs[1], CatAll(Tail(rs)))

\* A literal word under re.IGNORECASE
LitI(w) == CatAll([i \in DOMAIN w |-> ClsI(w[i])])

IsWordAt(s, i) == i \in DOMAIN s /\ s[i] \in WordChars

\* How many characters of the class S follow offset i, counting at most most.
RunLength(S, s, i, most) ==
    Max({n \in 0..most : n <= Len(s) - i /\ \A m \in 1..n : s[i + m] \in S})

\* A repeated character class ends after its longest run n first, then after
\* each shorter one down to lo characters.
RunEnds(n, i, lo) ==
    IF n < lo THEN <<>> ELSE [k \in 1..(n - lo + 1) |-> i + n + 1 - k]

RECURSIVE Ends(_, _, _)
RECURSIVE EndsAfter(_, _, _)
RECURSIVE RepEnds(_, _, _, _, _, _)
RECURSIVE RepAfter(_, _, _, _, _, _, _)

Ends(r, s, i) ==
    CASE r.t = "cls" -> IF i < Len(s) /\ s[i + 1] \in r.s THEN <<i + 1>> ELSE <<>>
      [] r.t = "lit" -> IF i + Len(r.w) <= Len(s) /\ SubSeq(s, i + 1, i + Len(r.w)) = r.w
                        THEN <<i + Len(r.w)>> ELSE <<>>
      [] r.t = "cat" -> EndsAfter(Ends(r.a, s, i), r.b, s)
      [] r.t = "alt" -> Ends(r.a, s, i) \o Ends(r.b, s, i)
      [] r.t = "rep" -> RepEnds(r.a, s, i, r.lo, r.hi, r.unbounded)
      [] r.t = "wordb" -> IF IsWordAt(s, i) /= IsWordAt(s, i + 1) THEN <<i>> ELSE <<>>

\* The ends of b begun at each of the offsets js, in order.
EndsAfter(js, b, s) ==
    IF js = <<>> THEN <<>>
    ELSE Ends(b, s, Head(js)) \o EndsAfter(Tail(js), b, s)

\* Greedy repetition: one more round of a first, stopping here last.
RepEnds(a, s, i, lo, hi, unbounded) ==
    IF a.t = "cls"
    THEN RunEnds(RunLength(a.s, s, i, IF unbounded THEN Len(s) ELSE hi), i, lo)
    ELSE (IF unbounded \/ hi > 0
          THEN RepAfter(Ends(a, s, i), a, s, i, lo, hi, unbounded)
          ELSE <<>>)
         \o (IF lo = 0 THEN <<i>> ELSE <<>>)

RepAfter(js, a, s, i, lo, hi, unbounded) ==
    IF js = <<>> THEN <<>>
    ELSE (IF Head(js) > i
          THEN RepEnds(a, s, Head(js), IF lo > 0 THEN lo - 1 ELSE 0,
                       IF hi > 0 THEN hi - 1 ELSE 0, unbounded)
          ELSE <<>>)
         \o RepAfter(Tail(js), a, s, i, lo, hi, unbounded)

\* Offsets from which the pattern matches somewhere in s.
MatchStarts(r, s) == {i \in 0..Len(s) : Ends(r, s, i) /= <<>>}

\* The leftmost match, as [start, end) offsets; None if there is none.
MatchAt(starts, r, s) ==
    IF starts = {} THEN None ELSE <<Min(starts), Head(Ends(r, s, Min(starts)))>>

\* re.search(r, s)
Search(r, s) == MatchAt(MatchStarts(r, s), r, s)

\* match.group(0)
Group0(s, m) == SubSeq(s, m[1] + 1, m[2])

\* m.group(0) if m else None
GroupOrNone(s, m) == IF m /= None THEN Group0(s, m) ELSE None

\* re.split(r, s) for a pattern that never matches the empty string.
RECURSIVE ReSplit(_, _)
RECURSIVE ReSplitAt(_, _, _)
ReSplit(r, s) == ReSplitAt(Search(r, s), r, s)
ReSplitAt(m, r, s) ==
    IF m = None THEN <<s>>
    ELSE <<UpTo(s, m[1])>> \o ReSplit(r, From(s, m[2]))

(***************************************************************************)
(* resume_parser.py                                                        *)
(***************************************************************************)

\* The dict SECTION_KEYWORDS, as its items in insertion order (the order in
\* which a dict is iterated).
SECTION_KEYWORDS == <<
    [section |-> "experience",
     keywords |-> <<
           <<"e", "x", "p", "e", "r", "i", "e", "n", "c", "e">>,
           <<"e", "x", "p", "e", "r", "i", "e_circ", "n", "c", "i", "a">>,
           <<"e", "x", "p", "e", "r", "i", "e", "n", "c", "i", "a">>,
           <<"w", "o", "r", "k", " ", "h", "i", "s", "t", "o", "r", "y">>,
           <<"h", "i", "s", "t", "o_acute", "r", "i", "c", "o", " ", "p", "r", "o", "f", "i", "s", "s", "i", "o", "n", "a", "l">>,
           <<"t", "r", "a", "j", "e", "t", "o_acute", "r", "i", "a">>,
           <<"c", "a", "r", "r", "e", "i", "r", "a">>>>],
    [section |-> "education",
     keywords |-> <<
           <<"e", "d", "u", "c", "a", "t", "i", "o", "n">>,
           <<"f", "o", "r", "m", "a", "c_ced", "a_tilde", "o">>,
           <<"f", "o", "r", "m", "a", "c", "a", "o">>,
           <<"f", "o", "r", "m", "a", "c_ced", "a_tilde", "o", " ", "a", "c", "a", "d", "e_circ", "m", "i", "c", "a">>,
           <<"f", "o", "r", "m", "a", "c", "a", "o", " ", "a", "c", "a", "d", "e", "m", "i", "c", "a">>,
           <<"a", "c", "a", "d", "e", "m", "i", "c">>,
           <<"e", "d", "u", "c", "a", "c_ced", "a_tilde", "o">>,
           <<"e", "d", "u", "c", "a", "c", "a", "o">>>>],
    [section |-> "skills",
     keywords |-> <<
           <<"s", "k", "i", "l", "l", "s">>,
           <<"c", "o", "m", "p", "e", "t", "e_circ", "n", "c", "i", "a", "s">>,
           <<"c", "o", "m", "p", "e", "t", "e", "n", "c", "i", "a", "s">>,
           <<"h", "a", "b", "i", "l", "i", "d", "a", "d", "e", "s">>>>],
    [section |-> "projects",
     keywords |-> <<
           <<"p", "r", "o", "j", "e", "c", "t", "s">>,
           <<"p", "r", "o", "j", "e", "t", "o", "s">>,
           <<"r", "e", "a", "l", "i", "z", "a", "c_ced", "o_tilde", "e", "s">>>>],
    [section |-> "summary",
     keywords |-> <<
           <<"s", "u", "m", "m", "a", "r", "y">>,
           <<"r", "e", "s", "u", "m", "o">>,
           <<"r", "e", "s", "u", "m", "o", " ", "p", "r", "o", "f", "i", "s", "s", "i", "o", "n", "a", "l">>,
           <<"p", "e", "r", "f", "i", "l">>,
           <<"o", "b", "j", "e", "t", "i", "v", "o">>>>]>>

\* The section a line is not a heading of: _detect_section's None.
NoSection == "None"

\* rf"\b{re.escape(keyword)}\b"
KeywordPattern(keyword) == Cat(WordB, Cat(Lit(keyword), WordB))

\* any(re.search(...) for keyword in keywords)
AnyKeyword(keywords, normalized) ==
    \E k \in DOMAIN keywords : MatchStarts(KeywordPattern(keywords[k]), normalized) /= {}

\* DetectFrom without the early return: the last matching section wins.
RECURSIVE DetectLastDeclared(_, _)
DetectLastDeclared(n, normalized) ==
    IF n > Len(section_keywords) THEN NoSection
    ELSE IF DetectLastDeclared(n + 1, normalized) /= NoSection
         THEN DetectLastDeclared(n + 1, normalized)
         ELSE IF AnyKeyword(section_keywords[n].keywords, normalized)
              THEN section_keywords[n].section
              ELSE NoSection

\* The loop of _detect_section, from the n-th item of SECTION_KEYWORDS on;
\* section_keywords is the dict the module-level name holds when it runs.
RECURSIVE DetectFrom(_, _)
DetectFrom(n, normalized) ==
    IF n > Len(section_keywords) THEN NoSection
    ELSE IF AnyKeyword(section_keywords[n].keywords, normalized)
         THEN section_keywords[n].section
         ELSE DetectFrom(n + 1, normalized)

\* _detect_section comparing the whole line with each keyword.
DetectExactLine(line) ==
    IF \E n \in DOMAIN section_keywords :
           Lower(line) \in Range(section_keywords[n].keywords)
    THEN section_keywords[Min({n \in DOMAIN section_keywords :
                                  Lower(line) \in Range(section_keywords[n].keywords)})].section
    ELSE NoSection

_detect_section(line) == DetectFrom(1, Lower(line))

\* _normalize_lines without the filter of line 51: blank lines are kept.
NormalizeKeepingBlank(txt) == StripAll(SplitLines(txt))

_normalize_lines(txt) == NonEmpty(StripAll(SplitLines(txt)))

Buckets == {section_keywords[n].section : n \in DOMAIN section_keywords} \cup {"header"}

\* The loop of _split_sections: the buckets after the lines ls, begun with
\* the buckets acc and the cursor current.
RECURSIVE SplitLoop(_, _, _)
RECURSIVE SplitLine(_, _, _, _)
\* SplitLine with the bucket of a heading emptied each time it is entered.
SplitLineResetting(detected, ls, acc, current) ==
    IF detected /= NoSection
    THEN SplitLoop(Tail(ls), [acc EXCEPT ![detected] = <<>>], detected)
    ELSE SplitLoop(Tail(ls), [acc EXCEPT ![current] = Append(@, Head(ls))], current)

SplitLoop(ls, acc, current) ==
    IF ls = <<>> THEN acc
    ELSE SplitLine(_detect_section(Head(ls)), ls, acc, current)
SplitLine(detected, ls, acc, current) ==
    IF detected /= NoSection
    THEN SplitLoop(Tail(ls), acc, detected)
    ELSE SplitLoop(Tail(ls), [acc EXCEPT ![current] = Append(@, Head(ls))], current)

_split_sections(ls) == SplitLoop(ls, [b \in Buckets |-> <<>>], "header")

\* ContactInfo(full_name=...): the other fields default to None.
ContactInfo(full_name, email, phone, location, website, linkedin) ==
    [full_name |-> full_name, email |-> email, phone |-> phone,
     location |-> location, website |-> website, linkedin |-> linkedin]

NAME_PLACEHOLDER ==
    <<"N", "o", "m", "e", " ", "n", "a_tilde", "o", " ", "i", "d", "e", "n", "t", "i", "f", "i", "c", "a", "d", "o">>

\* r"[\w\.\-+]+@[\w\-]+\.[\w\.-]+"
EMAIL_PATTERN ==
    CatAll(<<Star(Cls(WordChars \cup {".", "-", "+"}), 1), Cls({"@"}),
             Star(Cls(WordChars \cup {"-"}), 1), Cls({"."}),
             Star(Cls(WordChars \cup {".", "-"}), 1)>>)

\* r"(?:\+?\d{1,3}[\s-]?)?(?:\(?\d{2,3}\)?[\s-]?)?\d{4,5}[\s-]?\d{4}"
PHONE_PATTERN ==
    CatAll(<<Opt(CatAll(<<Opt(Cls({"+"})), Rep(Cls(Digits), 1, 3),
                          Opt(Cls(Whitespace \cup {"-"}))>>)),
             Opt(CatAll(<<Opt(Cls({"("})), Rep(Cls(Digits), 2, 3),
                          Opt(Cls({")"})), Opt(Cls(Whitespace \cup {"-"}))>>)),
             Rep(Cls(Digits), 4, 5), Opt(Cls(Whitespace \cup {"-"})),
             Rep(Cls(Digits), 4, 4)>>)

\* r"linkedin\.com/[^\s]+", flags=re.IGNORECASE
LINKEDIN_PATTERN ==
    Cat(LitI(<<"l", "i", "n", "k", "e", "d", "i", "n", ".", "c", "o", "m", "/">>),
        Star(Cls(Alphabet \ Whitespace), 1))

\* r"https?://[^\s]+"
URL_PATTERN ==
    CatAll(<<Lit(<<"h", "t", "t", "p">>), Opt(Cls({"s"})), Lit(<<":", "/", "/">>),
             Star(Cls(Alphabet \ Whitespace), 1)>>)

\* The length a comma fragment must exceed to be a location.
MIN_LOCATION_LEN == 2

\* [part.strip() for part in contact_details.split(",") if len(part.strip()) > 2]
LocationParts(contact_details) ==
    SelectSeq(StripAll(Split(contact_details, <<",">>)),
              LAMBDA part : Len(part) > MIN_LOCATION_LEN)

\* LastOrNone taking parts[0].
FirstOrNone(parts) == IF parts /= <<>> THEN parts[1] ELSE None

\* parts[-1] if parts, else the None that location_match starts as
LastOrNone(parts) == IF parts /= <<>> THEN parts[Len(parts)] ELSE None

Location(contact_details) ==
    IF Contains(contact_details, <<",">>)
    THEN LastOrNone(LocationParts(contact_details))
    ELSE None

\* ContactDetails joining every header line, the first included.
ContactDetailsAllLines(header_lines) == Join(<<" ">>, header_lines)

\* " ".join(header_lines[1:]) if len(header_lines) > 1 else ""
ContactDetails(header_lines) ==
    IF Len(header_lines) > 1 THEN Join(<<" ">>, Tail(header_lines)) ELSE <<>>

\* Lines 82-100: the searches over contact_details.
ContactFrom(full_name, contact_details) ==
    ContactInfo(full_name,
                GroupOrNone(contact_details, Search(EMAIL_PATTERN, contact_details)),
                GroupOrNone(contact_details, Search(PHONE_PATTERN, contact_details)),
                Location(contact_details),
                GroupOrNone(contact_details, Search(URL_PATTERN, contact_details)),
                GroupOrNone(contact_details, Search(LINKEDIN_PATTERN, contact_details)))

_extract_contact(header_lines) ==
    IF header_lines = <<>>
    THEN ContactInfo(NAME_PLACEHOLDER, None, None, None, None, None)
    ELSE ContactFrom(header_lines[1], ContactDetails(header_lines))

\* ExperienceItem(...): summary is left at its default, None.
ExperienceItem(role, company, start_date, end_date, highlights) ==
    [role |-> role, company |-> company, start_date |-> start_date,
     end_date |-> end_date, summary |-> None, highlights |-> highlights]

\* r"(\d{4}|\w+\s\d{4}).*(\d{4}|presente|atual)", re.IGNORECASE
DATE_PATTERN ==
    CatAll(<<Alt(Rep(Cls(Digits), 4, 4),
                 CatAll(<<Star(Cls(WordChars), 1), Cls(Whitespace), Rep(Cls(Digits), 4, 4)>>)),
             Star(Cls(Alphabet \ {"\n"}), 0),
             Alt(Rep(Cls(Digits), 4, 4),
                 Alt(LitI(<<"p", "r", "e", "s", "e", "n", "t", "e">>),
                     LitI(<<"a", "t", "u", "a", "l">>)))>>)

\* r"-|" and U+2013
DATE_SEPARATOR == Alt(Lit(<<"-">>), Lit(<<"endash">>))

\* HeaderParts with the split at the last hyphen (rsplit) instead of the first.
HeaderPartsAtLast(header) ==
    IF ~Contains(header, <<"-">>) THEN <<Strip(header)>>
    ELSE StripAll(SplitOnceAt(header, <<"-">>, Max(Occurrences(<<"-">>, header))))

\* [part.strip() for part in header.split("-", maxsplit=1)]
HeaderParts(header) == StripAll(SplitOnce(header, <<"-">>))

\* Lines 124-128: company and role are split at the first hyphen.
HasCompany(header, parts) == Contains(header, <<"-">>) /\ Len(parts) = 2

\* StartEnd taking the first two pieces whenever there are at least two.
StartEndFirstTwo(start_end) ==
    IF Len(start_end) >= 2
    THEN <<Strip(start_end[1]), Strip(start_end[2])>>
    ELSE <<None, None>>

\* Lines 133-136: <<start_date, end_date>> from the pieces of the date text.
StartEnd(start_end) ==
    IF Len(start_end) = 2
    THEN <<Strip(start_end[1]), Strip(start_end[2])>>
    ELSE <<None, None>>

\* [line.strip("- ") for line in summary_lines if line.strip()]
Highlights(summary_lines) ==
    [i \in DOMAIN NonBlank(summary_lines) |->
        StripChars(NonBlank(summary_lines)[i], {"-", " "})]

BlockItem(header, parts, dates, summary_lines) ==
    ExperienceItem(Strip(IF HasCompany(header, parts) THEN parts[2] ELSE header),
                   IF HasCompany(header, parts) THEN parts[1] ELSE None,
                   dates[1], dates[2], Highlights(summary_lines))

\* Lines 131-137, when the date pattern matched date_text.
DatedItem(header, parts, date_text, summary_lines) ==
    BlockItem(header, parts, StartEnd(ReSplit(DATE_SEPARATOR, date_text)),
              SelectSeq(summary_lines, LAMBDA line : ~Contains(line, date_text)))

BlockFrom(header, summary_lines, date_match) ==
    IF date_match /= None
    THEN DatedItem(header, HeaderParts(header), Group0(header, date_match), summary_lines)
    ELSE BlockItem(header, HeaderParts(header), <<None, None>>, summary_lines)

_experience_from_block(block) ==
    BlockFrom(block[1], Tail(block), Search(DATE_PATTERN, block[1]))

\* ExperienceLoop with a flush of what is left in the buffer after the loop.
RECURSIVE ExperienceLoopFlushing(_, _, _)
ExperienceLoopFlushing(ls, acc, buffer) ==
    IF ls = <<>>
    THEN (IF buffer /= <<>> THEN Append(acc, _experience_from_block(buffer)) ELSE acc)
    ELSE IF Strip(Head(ls)) = <<>> /\ buffer /= <<>>
         THEN ExperienceLoopFlushing(Tail(ls), Append(acc, _experience_from_block(buffer)), <<>>)
         ELSE ExperienceLoopFlushing(Tail(ls), acc, Append(buffer, Head(ls)))

\* The loop of _parse_experience over the lines ls, begun with the items acc
\* and the buffer.
RECURSIVE ExperienceLoop(_, _, _)
ExperienceLoop(ls, acc, buffer) ==
    IF ls = <<>> THEN acc
    ELSE IF Strip(Head(ls)) = <<>> /\ buffer /= <<>>
         THEN ExperienceLoop(Tail(ls), Append(acc, _experience_from_block(buffer)), <<>>)
         ELSE ExperienceLoop(Tail(ls), acc, Append(buffer, Head(ls)))

\* for line in lines + [""]
_parse_experience(ls) == ExperienceLoop(Append(ls, <<>>), <<>>, <<>>)

\* What a call gives: the value it returns, or the exception it raises.
Returned(value) == [raised |-> "none", value |-> value]
Raised(exception) == [raised |-> exception, value |-> <<>>]

\* [part.strip() for part in re.split(pattern, line) if part.strip()]
Fragments(pattern, line) == NonEmpty(StripAll(ReSplit(pattern, line)))

EducationItem(degree, institution, summary) ==
    [degree |-> degree, institution |-> institution, start_date |-> None,
     end_date |-> None, summary |-> summary]

\* r" - | – |,"
EDUCATION_SEPARATOR ==
    Alt(Lit(<<" ", "-", " ">>), Alt(Lit(<<" ", "endash", " ">>), Lit(<<",">>)))

\* Lines 156-159, for a line with at least one fragment.
EducationFrom(parts) ==
    EducationItem(parts[1],
                  IF Len(parts) > 1 THEN parts[2] ELSE None,
                  IF Len(parts) > 2
                  THEN Join(<<",", " ">>, SubSeq(parts, 3, Len(parts)))
                  ELSE None)

\* The loop of _parse_education; parts[0] of an empty list raises IndexError.
RECURSIVE EducationLoop(_, _)
RECURSIVE EducationLine(_, _, _)
EducationLoop(ls, acc) ==
    IF ls = <<>> THEN Returned(acc)
    ELSE IF Head(ls) = <<>> THEN EducationLoop(Tail(ls), acc)
    ELSE EducationLine(Fragments(EDUCATION_SEPARATOR, Head(ls)), ls, acc)
EducationLine(parts, ls, acc) ==
    IF parts = <<>> THEN Raised("IndexError")
    ELSE EducationLoop(Tail(ls), Append(acc, EducationFrom(parts)))

_parse_education(ls) == EducationLoop(ls, <<>>)

\* [skill.strip() for skill in skills_text.split(sep) if skill.strip()]
SkillsSplit(skills_text, sep) == NonEmpty(StripAll(Split(skills_text, sep)))

\* [line.strip("- ") for line in lines if line.strip()]
SkillsPerLine(ls) ==
    [i \in DOMAIN NonBlank(ls) |-> StripChars(NonBlank(ls)[i], {"-", " "})]

\* SkillsFrom with the two delimiter tests in the other order.
SkillsCommaFirst(ls, skills_text) ==
    IF Contains(skills_text, <<",">>) THEN SkillsSplit(skills_text, <<",">>)
    ELSE IF Contains(skills_text, <<";">>) THEN SkillsSplit(skills_text, <<";">>)
    ELSE SkillsPerLine(ls)

SkillsFrom(ls, skills_text) ==
    IF Contains(skills_text, <<";">>) THEN SkillsSplit(skills_text, <<";">>)
    ELSE IF Contains(skills_text, <<",">>) THEN SkillsSplit(skills_text, <<",">>)
    ELSE SkillsPerLine(ls)

_parse_skills(ls) == SkillsFrom(ls, Join(<<" ">>, ls))

ProjectItem(name, description, link) ==
    [name |-> name, description |-> description, link |-> link]

\* r" - | – |:|,"
PROJECT_SEPARATOR ==
    Alt(Lit(<<" ", "-", " ">>),
        Alt(Lit(<<" ", "endash", " ">>), Alt(Lit(<<":">>), Lit(<<",">>))))

\* Lines 178-181, for a line with at least one fragment.
ProjectFrom(parts, line) ==
    ProjectItem(parts[1],
                IF Len(parts) > 1 THEN Join(<<",", " ">>, Tail(parts)) ELSE None,
                GroupOrNone(line, Search(URL_PATTERN, line)))

\* The loop of _parse_projects; parts[0] of an empty list raises IndexError.
RECURSIVE ProjectLoop(_, _)
RECURSIVE ProjectLine(_, _, _)
ProjectLoop(ls, acc) ==
    IF ls = <<>> THEN Returned(acc)
    ELSE IF Head(ls) = <<>> THEN ProjectLoop(Tail(ls), acc)
    ELSE ProjectLine(Fragments(PROJECT_SEPARATOR, Head(ls)), ls, acc)
ProjectLine(parts, ls, acc) ==
    IF parts = <<>> THEN Raised("IndexError")
    ELSE ProjectLoop(Tail(ls), Append(acc, ProjectFrom(parts, Head(ls))))

_parse_projects(ls) == ProjectLoop(ls, <<>>)

\* " ".join(summary_lines) if summary_lines else None
ProfessionalSummary(summary_lines) ==
    IF summary_lines /= <<>> THEN Join(<<" ">>, summary_lines) ELSE None

ResumeData(c, summary, exps, edus, sks, projs) ==
    [contact |-> c, professional_summary |-> summary, experiences |-> exps,
     educations |-> edus, skills |-> sks, projects |-> projs]

\* IsPdf without the .lower(): the ending compared case-sensitively.
IsPdfCaseSensitive(name) == EndsWith(name, <<".", "p", "d", "f">>)

\* filename.lower().endswith(".pdf")
IsPdf(name) == EndsWith(Lower(name), <<".", "p", "d", "f">>)

\* filename.lower().endswith((".doc", ".docx"))
IsWord(name) ==
    \/ EndsWith(Lower(name), <<".", "d", "o", "c">>)
    \/ EndsWith(Lower(name), <<".", "d", "o", "c", "x">>)

(***************************************************************************)
(* parse_resume, one action per statement.  The state is that of one call: *)
(* its arguments, its local variables, and what it returns or raises;      *)
(* with it the module-level dict SECTION_KEYWORDS (section_keywords) and   *)
(* the calls that ended before this one (earlier).                         *)
(* file_text is the text that the format's extractor (_read_pdf or         *)
(* _read_docx, over pdfplumber and python-docx) yields for file_bytes.     *)
(***************************************************************************)

\* if / elif / else over the filename's ending, lines 186-191.
OpenFile ==
    /\ pc = "called"
    /\ IF IsPdf(filename) \/ IsWord(filename)
       THEN /\ text' = file_text
            /\ pc' = "read"
            /\ error' = error
       ELSE /\ error' = "ValueError"
            /\ pc' = "raised"
            /\ text' = text
    /\ UNCHANGED <<section_keywords, earlier, filename, file_text, lines, sections, contact, experiences,
                   educations, skills, projects, professional_summary, result>>

NormalizeLines ==
    /\ pc = "read"
    /\ lines' = _normalize_lines(text)
    /\ pc' = "normalized"
    /\ UNCHANGED <<section_keywords, earlier, filename, file_text, text, sections, contact, experiences,
                   educations, skills, projects, professional_summary, result, error>>

\* SplitSections with the buckets kept in the lists of SECTION_KEYWORDS itself
\* (sections = SECTION_KEYWORDS instead of a new dict): the content lines
\* land in the module's table.
SplitSectionsAliasing ==
    /\ pc = "normalized"
    /\ sections' = _split_sections(lines)
    /\ section_keywords' =
           [n \in DOMAIN section_keywords |->
               [section_keywords[n] EXCEPT
                    !.keywords = @ \o sections'[section_keywords[n].section]]]
    /\ pc' = "split"
    /\ UNCHANGED <<earlier, filename, file_text, text, lines, contact, experiences,
                   educations, skills, projects, professional_summary, result, error>>

SplitSections ==
    /\ pc = "normalized"
    /\ sections' = _split_sections(lines)
    /\ pc' = "split"
    /\ UNCHANGED <<section_keywords, earlier, filename, file_text, text, lines, contact, experiences,
                   educations, skills, projects, professional_summary, result, error>>

ExtractContact ==
    /\ pc = "split"
    /\ contact' = _extract_contact(sections["header"])
    /\ pc' = "contact"
    /\ UNCHANGED <<section_keywords, earlier, filename, file_text, text, lines, sections, experiences,
                   educations, skills, projects, professional_summary, result, error>>

ParseExperience ==
    /\ pc = "contact"
    /\ experiences' = _parse_experience(sections["experience"])
    /\ pc' = "experience"
    /\ UNCHANGED <<section_keywords, earlier, filename, file_text, text, lines, sections, contact,
                   educations, skills, projects, professional_summary, result, error>>

\* educations = _parse_education(...), or the exception leaves parse_resume.
EducationOutcome(r) ==
    IF r.raised = "none"
    THEN educations' = r.value /\ pc' = "education" /\ error' = error
    ELSE educations' = educations /\ pc' = "raised" /\ error' = r.raised

ParseEducation ==
    /\ pc = "experience"
    /\ EducationOutcome(_parse_education(sections["education"]))
    /\ UNCHANGED <<section_keywords, earlier, filename, file_text, text, lines, sections, contact, experiences,
                   skills, projects, professional_summary, result>>

ParseSkills ==
    /\ pc = "education"
    /\ skills' = _parse_skills(sections["skills"])
    /\ pc' = "skills"
    /\ UNCHANGED <<section_keywords, earlier, filename, file_text, text, lines, sections, contact, experiences,
                   educations, projects, professional_summary, result, error>>

\* projects = _parse_projects(...), or the exception leaves parse_resume.
ProjectsOutcome(r) ==
    IF r.raised = "none"
    THEN projects' = r.value /\ pc' = "projects" /\ error' = error
    ELSE projects' = projects /\ pc' = "raised" /\ error' = r.raised

ParseProjects ==
    /\ pc = "skills"
    /\ ProjectsOutcome(_parse_projects(sections["projects"]))
    /\ UNCHANGED <<section_keywords, earlier, filename, file_text, text, lines, sections, contact, experiences,
                   educations, skills, professional_summary, result>>

\* Lines 202-212: the summary and the ResumeData returned.
Aggregate ==
    /\ pc = "projects"
    /\ professional_summary' = ProfessionalSummary(sections["summary"])
    /\ result' = ResumeData(contact, professional_summary', experiences,
                            educations, skills, projects)
    /\ pc' = "returned"
    /\ UNCHANGED <<section_keywords, earlier, filename, file_text, text, lines, sections, contact, experiences,
                   educations, skills, projects, error>>

Next ==
    \/ OpenFile
    \/ NormalizeLines
    \/ SplitSections
    \/ ExtractContact
    \/ ParseExperience
    \/ ParseEducation
    \/ ParseSkills
    \/ ParseProjects
    \/ Aggregate

(***************************************************************************)
(* The calls explored.  A call is parse_resume(file_bytes, filename); a    *)
(* text is given by its lines, joined by "\n".                             *)
(***************************************************************************)

SeqsUpTo(S, n) == UNION {[1..k -> S] : k \in 0..n}

TextOf(ls) == Join(<<"\n">>, ls)

\* The state on entry to parse_resume(file_bytes, name), where the
\* extractor yields txt for file_bytes.
Called(name, txt) ==
    /\ section_keywords = SECTION_KEYWORDS
    /\ earlier = <<>>
    /\ pc = "called"
    /\ filename = name
    /\ file_text = txt
    /\ text = None
    /\ lines = <<>>
    /\ sections = [b \in Buckets |-> <<>>]
    /\ contact = None
    /\ experiences = <<>>
    /\ educations = <<>>
    /\ skills = <<>>
    /\ projects = <<>>
    /\ professional_summary = None
    /\ result = None
    /\ error = "none"

\* Names of uploads: the accepted endings in either case, and names without one.
FileNames == {
    <<"c", "v", ".", "p", "d", "f">>,
    <<"C", "V", ".", "P", "d", "f">>,
    <<"c", "v", ".", "D", "O", "C", "X">>,
    <<"c", "v", ".", "d", "o", "c">>,
    <<"c", "v", ".", "t", "x", "t">>,
    <<"c", "v", "p", "d", "f">>,
    <<"c", "v", ".", "p", "d", "f", ".", "b", "a", "k">>,
    <<"c", "v", ".", "d", "o", "c", "x", " ">>,
    <<"c", "v", ".", "d", "o", "c", "m">>,
    <<>>}

PdfName == <<"c", "v", ".", "p", "d", "f">>

\* Lines of an extracted text, blank ones and separator-only ones included.
RawLines == {
    <<>>,
    <<" ", " ">>,
    <<" ", "A", "n", "a", " ", "L", "i", "m", "a", " ">>,
    <<"E", "x", "p", "e", "r", "i", "e", "n", "c", "e">>,
    <<"A", "c", "m", "e", " ", "-", " ", "D", "e", "v">>,
    <<"A", "c", "m", "e", " ", "-">>,
    <<"E", "D", "U", "C", "A", "T", "I", "O", "N">>,
    <<",">>,
    <<"B", "S", "c", ",", " ", "M", "I", "T">>,
    <<"P", "r", "o", "j", "e", "c", "t", "s", ":">>,
    <<":">>,
    <<"S", "k", "i", "l", "l", "s">>,
    <<"G", "o", ";", " ", "R", "u", "s", "t">>}

MaxLines == 2

Init ==
    \E name \in FileNames, ls \in SeqsUpTo(RawLines, MaxLines) :
        Called(name, TextOf(ls))

\* parse_resume over every upload name and every text of up to MaxLines lines.
Spec == Init /\ [][Next]_vars

\* Lines for the segmenter: headings inside longer lines, in either case, with keywords of
\* two sections in both orders, and lines where a keyword is only part of a word.
HeadingLines == {
    <<"A", "n", "a">>,
    <<"b">>,
    <<"M", "y", " ", "S", "K", "I", "L", "L", "S", ":">>,
    <<"S", "k", "i", "l", "l", "s", " ", "a", "n", "d", " ", "E", "d", "u", "c", "a", "t", "i", "o", "n">>,
    <<"E", "d", "u", "c", "a", "t", "i", "o", "n", " ", "a", "n", "d", " ", "S", "k", "i", "l", "l", "s">>,
    <<"s", "k", "i", "l", "l", "s", "e", "t">>,
    <<"R", "e", "s", "u", "m", "o", "_", "p", "r", "o", "f", "i", "s", "s", "i", "o", "n", "a", "l">>,
    <<"H", "i", "s", "t", "o_acute", "r", "i", "c", "o", " ", "P", "r", "o", "f", "i", "s", "s", "i", "o", "n", "a", "l">>}

MaxHeadingLines == 3

InitSegmenter ==
    \E ls \in SeqsUpTo(HeadingLines, MaxHeadingLines) : Called(PdfName, TextOf(ls))

SpecSegmenter == InitSegmenter /\ [][Next]_vars

\* Lines for sections that are entered, left and entered again.
SectionLines == {
    <<"S", "k", "i", "l", "l", "s">>,
    <<"E", "D", "U", "C", "A", "T", "I", "O", "N">>,
    <<"a">>,
    <<"b">>}

MaxSectionLines == 5

InitPartition ==
    \E ls \in SeqsUpTo(SectionLines, MaxSectionLines) : Called(PdfName, TextOf(ls))

SpecPartition == InitPartition /\ [][Next]_vars

\* Lines of a resume's header: a name and contact details.
HeaderLines == {
    <<"J", "a", "n", "e", " ", "D", "o", "e">>,
    <<"j", "a", "n", "e", "@", "e", "x", "a", "m", "p", "l", "e", ".", "c", "o", "m", ",", " ", "(", "1", "1", ")", " ", "9", "8", "7", "6", "5", "-", "4", "3", "2", "1", ",", " ", "S", "a_tilde", "o", " ", "P", "a", "u", "l", "o", ",", " ", "B", "r", "a", "s", "i", "l">>,
    <<"a", "@", "b", ".", "c", "o", ",", " ", "R", "i", "o", ",", " ", "B", "r", "a", "s", "i", "l">>,
    <<"h", "t", "t", "p", "s", ":", "/", "/", "l", "i", "n", "k", "e", "d", "i", "n", ".", "c", "o", "m", "/", "i", "n", "/", "j", "a", "n", "e">>,
    <<"S", "P", ",", " ", "B", "R">>,
    <<"R", "i", "o", ",", " ", "R", "J">>,
    <<"+", "5", "5", " ", "1", "1", " ", "9", "1", "2", "3", "4", "-", "5", "6", "7", "8">>}

MaxHeaderLines == 3

InitContact ==
    \E ls \in SeqsUpTo(HeaderLines, MaxHeaderLines) : Called(PdfName, TextOf(ls))

SpecContact == InitContact /\ [][Next]_vars

SkillsHeading == <<"S", "k", "i", "l", "l", "s">>

\* Lines of a skills section.
SkillLines == {
    <<"P", "y", "t", "h", "o", "n", ";", " ", "G", "o", ",", " ", "R", "u", "s", "t">>,
    <<"G", "o", ",", " ", "R", "u", "s", "t">>,
    <<"-", " ", "D", "o", "c", "k", "e", "r">>,
    <<"S", "Q", "L">>,
    <<";">>,
    <<"a", " ", ";", ",", " ", "b">>,
    <<"-">>}

MaxSkillLines == 3

InitSkills ==
    \E ls \in SeqsUpTo(SkillLines, MaxSkillLines) :
        Called(PdfName, TextOf(<<SkillsHeading>> \o ls))

SpecSkills == InitSkills /\ [][Next]_vars

ExperienceHeading == <<"E", "x", "p", "e", "r", "i", "e", "n", "c", "e">>

\* Lines of an experience section: headers with and without hyphens and
\* dates, bullets, a bare bullet marker, and a blank line between jobs.
ExperienceLines == {
    <<"A", "c", "m", "e", " ", "C", "o", "r", "p", " ", "-", " ", "S", "e", "n", "i", "o", "r", " ", "E", "n", "g", "i", "n", "e", "e", "r", " ", "(", "2", "0", "1", "9", " ", "-", " ", "2", "0", "2", "2", ")">>,
    <<"D", "e", "v">>,
    <<"-", " ", "B", "u", "i", "l", "t", " ", "A", "P", "I", "s">>,
    <<"-">>,
    <<"J", "a", "n", " ", "2", "0", "1", "9", " ", "endash", " ", "a", "t", "u", "a", "l">>,
    <<"2", "0", "1", "9", " ", "-", " ", "2", "0", "2", "0", " ", "-", " ", "2", "0", "2", "1">>,
    <<"2", "0", "1", "9", " ", "2", "0", "2", "0">>,
    <<>>}

MaxExperienceLines == 3

InitExperience ==
    \E ls \in SeqsUpTo(ExperienceLines, MaxExperienceLines) :
        Called(PdfName, TextOf(<<ExperienceHeading>> \o ls))

SpecExperience == InitExperience /\ [][Next]_vars

EducationHeading == <<"E", "d", "u", "c", "a", "t", "i", "o", "n">>

\* Lines of an education section: one, two and more fragments, empty
\* fragments, and a line of separators only.
EducationLines == {
    <<"B", "S", "c", ",", " ", "M", "I", "T">>,
    <<"M", "B", "A", " ", "-", " ", "F", "G", "V", " ", "endash", " ", "2", "0", "2", "0", ",", " ", "h", "o", "n", "o", "r", "s">>,
    <<"P", "h", "D">>,
    <<",">>,
    <<"a", " ", "-", " ", ",", " ", "b">>,
    <<"-">>}

MaxEducationLines == 3

InitEducation ==
    \E ls \in SeqsUpTo(EducationLines, MaxEducationLines) :
        Called(PdfName, TextOf(<<EducationHeading>> \o ls))

SpecEducation == InitEducation /\ [][Next]_vars

\* A call of parse_resume has ended.
Ended == pc \in {"returned", "raised"}

\* What the call that has ended was given and what it gave.
Outcome ==
    [filename |-> filename, file_text |-> file_text, result |-> result, error |-> error]

\* Uploads for several requests in a row: the same text under an accepted
\* and a refused name, a line alone and under a heading, and a text on
\* which the education parser raises.
CallInputs == {
    [filename |-> PdfName, file_text |-> <<"a", "n", "a">>],
    [filename |-> PdfName, file_text |-> <<"S", "k", "i", "l", "l", "s", "\n", "a", "n", "a">>],
    [filename |-> PdfName, file_text |-> <<"a", "n", "a", "\n", "E", "x", "p", "e", "r", "i", "e", "n", "c", "e", "\n", "A", "c", "m", "e", " ", "-", " ", "D", "e", "v", "\n", "E", "d", "u", "c", "a", "t", "i", "o", "n", "\n", "B", "S", "c", ",", " ", "M", "I", "T">>],
    [filename |-> PdfName, file_text |-> <<"E", "D", "U", "C", "A", "T", "I", "O", "N", "\n", ",">>],
    [filename |-> <<"c", "v", ".", "t", "x", "t">>, file_text |-> <<"a", "n", "a">>]}

MaxCalls == 3

\* The endpoint is requested again and calls parse_resume anew: new
\* arguments and new locals; what is at module level stays as it is.
CallAgain ==
    /\ Ended
    /\ Len(earlier) + 1 < MaxCalls
    /\ earlier' = Append(earlier, Outcome)
    /\ \E c \in CallInputs : filename' = c.filename /\ file_text' = c.file_text
    /\ pc' = "called"
    /\ text' = None
    /\ lines' = <<>>
    /\ sections' = [b \in Buckets |-> <<>>]
    /\ contact' = None
    /\ experiences' = <<>>
    /\ educations' = <<>>
    /\ skills' = <<>>
    /\ projects' = <<>>
    /\ professional_summary' = None
    /\ result' = None
    /\ error' = "none"
    /\ UNCHANGED section_keywords

NextCalls == Next \/ CallAgain

InitCalls == \E c \in CallInputs : Called(c.filename, c.file_text)

\* Up to MaxCalls calls of parse_resume one after the other in one process.
SpecCalls == InitCalls /\ [][NextCalls]_vars

(***************************************************************************)
(* Properties                                                              *)
(***************************************************************************)

\* The filename's extension: its text from the last dot on, in lower case;
\* empty when the name has no dot.
Extension(name) ==
    IF Occurrences(<<".">>, name) = {} THEN <<>>
    ELSE Lower(From(name, Max(Occurrences(<<".">>, name))))

SupportedExtensions == {<<".", "p", "d", "f">>, <<".", "d", "o", "c">>, <<".", "d", "o", "c", "x">>}

\* C1: once the extension is accepted, no step of the pipeline raises,
\* whatever the extracted text: a call that ends in an exception is one
\* whose extension was refused.
C1_PipelineNeverRaises ==
    pc = "raised" => (Extension(filename) \notin SupportedExtensions /\ error = "ValueError")

\* C2: in every ResumeData returned, full_name, every role, every degree and
\* every project name is a non-empty string.
C2_RequiredFieldsNonEmpty ==
    pc = "returned" =>
        /\ result.contact.full_name /= <<>>
        /\ \A i \in DOMAIN result.experiences : result.experiences[i].role /= <<>>
        /\ \A i \in DOMAIN result.educations : result.educations[i].degree /= <<>>
        /\ \A i \in DOMAIN result.projects : result.projects[i].name /= <<>>

\* C6: a call whose filename has an extension other than .pdf, .doc or .docx
\* (in any case) ends with the unsupported-format error, raised before any
\* text is extracted or parsed and with nothing returned; a call whose
\* filename has one of these extensions never ends with that error.
C6_UnsupportedFormat ==
    /\ (Extension(filename) \notin SupportedExtensions /\ pc /= "called") =>
           /\ pc = "raised" /\ error = "ValueError"
           /\ text = None /\ lines = <<>> /\ contact = None /\ result = None
    /\ Extension(filename) \in SupportedExtensions => error /= "ValueError"

\* C6's case: a name that holds ".pdf" but does not end with it is refused.
C6_Witness ==
    /\ pc = "raised" /\ error = "ValueError"
    /\ Contains(filename, <<".", "p", "d", "f">>)

\* A text that is empty or whose lines are all blank.
IsBlankText(txt) == \A i \in DOMAIN txt : txt[i] \in Whitespace

\* C7: for an extracted text that is empty or all blank, parse_resume
\* returns, and the ResumeData has every contact field but full_name absent,
\* no professional_summary, and four empty lists.
C7_EmptyText ==
    (IsBlankText(file_text) /\ Extension(filename) \in SupportedExtensions) =>
        /\ pc /= "raised"
        /\ pc = "returned" =>
            /\ \A f \in {"email", "phone", "location", "website", "linkedin"} :
                   result.contact[f] = None
            /\ result.professional_summary = None
            /\ result.experiences = <<>>
            /\ result.educations = <<>>
            /\ result.skills = <<>>
            /\ result.projects = <<>>

\* C7's case: the result for a text of blank lines only.
C7_Witness ==
    /\ pc = "returned"
    /\ file_text /= <<>>
    /\ IsBlankText(file_text)

\* _split_sections has just returned.
SplitDone == pc = "split"

\* The keyword occurs in s at offset i as a whole word: no word character
\* right before it nor right after it.
WholeWordAt(keyword, s, i) ==
    /\ i + Len(keyword) <= Len(s)
    /\ SubSeq(s, i + 1, i + Len(keyword)) = keyword
    /\ i = 0 \/ s[i] \notin WordChars
    /\ i + Len(keyword) = Len(s) \/ s[i + Len(keyword) + 1] \notin WordChars

\* The places in the declared order of the sections of which the lower-case
\* line s holds a keyword as a whole word.
DeclaredOrder == <<"experience", "education", "skills", "projects", "summary">>
SectionsNamedIn(s) ==
    {n \in DOMAIN SECTION_KEYWORDS :
        \E k \in DOMAIN SECTION_KEYWORDS[n].keywords, i \in 0..Len(s) :
            WholeWordAt(SECTION_KEYWORDS[n].keywords[k], s, i)}
SectionsNamed(line) == SectionsNamedIn(Lower(line))

\* The first section in the declared order among those the line names;
\* NoSection for a line that names none, a content line.
FirstOf(named) == IF named = {} THEN NoSection ELSE DeclaredOrder[Min(named)]
FirstDeclared(line) == FirstOf(SectionsNamed(line))

\* For each input line, the section it is a heading of.
HeadingOf == [i \in DOMAIN lines |-> FirstDeclared(lines[i])]

\* C3: a line that holds a section keyword as a whole word, in any case and
\* anywhere in the line, is in none of the six buckets.
C3_HeadingsDropped ==
    SplitDone =>
        \A i \in DOMAIN lines :
            SectionsNamed(lines[i]) /= {} =>
                \A b \in Buckets : lines[i] \notin Range(sections[b])

\* C3's case: a heading that is more than its keyword, in upper case, with a
\* content line after it.
C3_Witness ==
    /\ SplitDone
    /\ \E i \in DOMAIN lines :
           /\ lines[i] = <<"M", "y", " ", "S", "K", "I", "L", "L", "S", ":">>
           /\ i < Len(lines)
           /\ SectionsNamed(lines[i + 1]) = {}

\* The k-th smallest member of a set of numbers.
KthSmallest(S, k) == CHOOSE x \in S : Cardinality({y \in S : y < x}) = k - 1

\* The members of a set of line numbers, as the lines in input order.
LinesAt(S) == [k \in 1..Cardinality(S) |-> lines[KthSmallest(S, k)]]

\* The section that governs line i, given each line's heading: that of the
\* nearest heading before it, or the header when no heading precedes it.
NearestHeading(before, heading) ==
    IF before = {} THEN "header" ELSE heading[Max(before)]
Governing(i, heading) ==
    NearestHeading({j \in 1..(i - 1) : heading[j] /= NoSection}, heading)

\* The content lines that section b governs.
GovernedBy(b, heading) ==
    {i \in DOMAIN heading : heading[i] = NoSection /\ Governing(i, heading) = b}

BucketsAre(heading) ==
    \A b \in DOMAIN sections : sections[b] = LinesAt(GovernedBy(b, heading))

\* C4: the six buckets partition the content lines: each bucket holds, in
\* input order, exactly the non-heading lines whose nearest preceding
\* heading names it (the header bucket: those with no heading before them).
C4_Partition ==
    SplitDone =>
        /\ DOMAIN sections = {"header", "experience", "education", "skills",
                              "projects", "summary"}
        /\ BucketsAre(HeadingOf)

\* C4's case: a section that is left and entered again, with content both times.
ReEntered(b, heading) ==
    \E i, j \in GovernedBy(b, heading) :
        \E h \in i..j : heading[h] \notin {NoSection, b}
C4_Witness ==
    /\ SplitDone
    /\ ReEntered("skills", HeadingOf)
    /\ Len(sections["skills"]) >= 2

FollowsItsHeading(i, named) ==
    /\ named /= {}
    /\ SectionsNamed(lines[i + 1]) = {}
    => lines[i + 1] \in Range(sections[FirstOf(named)])

\* C5: a content line that follows a heading is in the bucket of the first
\* section, in the declared order, of which the heading holds a keyword,
\* wherever in the heading the keywords stand.
C5_FirstDeclaredWins ==
    SplitDone =>
        \A i \in 1..(Len(lines) - 1) : FollowsItsHeading(i, SectionsNamed(lines[i]))

\* C5's case: a heading with keywords of two sections, the later declared one
\* standing first in the line.
C5_Witness ==
    /\ SplitDone
    /\ \E i \in 1..(Len(lines) - 1) :
           /\ lines[i] = <<"S", "k", "i", "l", "l", "s", " ", "a", "n", "d", " ", "E", "d", "u", "c", "a", "t", "i", "o", "n">>
           /\ Cardinality(SectionsNamed(lines[i])) = 2
           /\ lines[i + 1] \in Range(sections["education"])

\* _extract_contact has just returned.
ContactDone == pc = "contact"

OtherContactFields == {"email", "phone", "location", "website", "linkedin"}

\* First lines that would set contact fields if they were read for them.
OtherFirstLines == {<<"a", "@", "b", ".", "c", "o", ",", " ", "R", "i", "o", ",", " ", "B", "r", "a", "s", "i", "l">>,
                    <<"h", "t", "t", "p", "s", ":", "/", "/", "l", "i", "n", "k", "e", "d", "i", "n", ".", "c", "o", "m", "/", "i", "n", "/", "j", "a", "n", "e">>}

\* The contact of the header lines under another first line, with the given name.
WithFirstLine(first, header_lines, name) ==
    [_extract_contact(<<first>> \o Tail(header_lines)) EXCEPT !.full_name = name]

\* With a header, full_name is its first line as it stands, and the first
\* line gives nothing else: a header of one line has no other field, and the
\* other fields are those of the same header under any other first line.
FirstLineIsTheName ==
    sections["header"] /= <<>> =>
        /\ contact.full_name = sections["header"][1]
        /\ Len(sections["header"]) = 1 =>
               \A f \in OtherContactFields : contact[f] = None
        /\ \A first \in OtherFirstLines :
               contact = WithFirstLine(first, sections["header"], contact.full_name)

\* Without a header, full_name is the given placeholder and nothing else is set.
PlaceholderIs(placeholder) ==
    sections["header"] = <<>> =>
        /\ contact.full_name = placeholder
        /\ \A f \in OtherContactFields : contact[f] = None

\* C8 as stated: for an empty header bucket, full_name is the placeholder
\* "Name not identified" and every other field is absent; otherwise
\* full_name is the first header line and that line gives no other field.
C8_AsStated ==
    ContactDone =>
        /\ PlaceholderIs(<<"N", "a", "m", "e", " ", "n", "o", "t", " ", "i", "d", "e", "n", "t", "i", "f", "i", "e", "d">>)
        /\ FirstLineIsTheName

\* C8, amended: for an empty header bucket, full_name is the placeholder
\* "Nome n\~ao identificado" and every other field is absent; otherwise
\* full_name is the first header line and that line gives no other field.
C8_Contact ==
    ContactDone =>
        /\ PlaceholderIs(<<"N", "o", "m", "e", " ", "n", "a_tilde", "o", " ", "i", "d", "e", "n", "t", "i", "f", "i", "c", "a", "d", "o">>)
        /\ FirstLineIsTheName

\* C8's case: no header line at all, and the placeholder for a name.
C8_Witness ==
    /\ ContactDone
    /\ sections["header"] = <<>>
    /\ contact.full_name = NAME_PLACEHOLDER
    /\ contact.email = None

\* The pieces of s between the occurrences of the character c, in order.
Boundaries(s, c) == {0, Len(s) + 1} \cup {i \in DOMAIN s : s[i] = c}
PiecesAt(s, bounds) ==
    [k \in 1..(Cardinality(bounds) - 1) |->
        SubSeq(s, KthSmallest(bounds, k) + 1, KthSmallest(bounds, k + 1) - 1)]
Pieces(s, c) == PiecesAt(s, Boundaries(s, c))

\* The header lines after the first, joined by single spaces.
ContactBlob == Join(<<" ">>, Tail(sections["header"]))

\* The last of the pieces whose trimmed length is over 2, trimmed; None
\* when there is only one piece (no comma) or no piece is that long.
LongPieces(pieces) == {k \in DOMAIN pieces : Len(Strip(pieces[k])) > 2}
LastLongPiece(pieces) ==
    IF Len(pieces) < 2 \/ LongPieces(pieces) = {} THEN None
    ELSE Strip(pieces[Max(LongPieces(pieces))])

\* C10: location is the last comma-separated fragment, of the header lines
\* after the first joined by spaces, whose trimmed length is over 2; it is
\* absent when that text has no comma or no fragment that long.
C10_Location ==
    (ContactDone /\ sections["header"] /= <<>>) =>
        contact.location = LastLongPiece(Pieces(ContactBlob, ","))

\* C10's case: "..., S\~ao Paulo, Brasil" gives "Brasil".
C10_Witness ==
    /\ ContactDone
    /\ sections["header"] = <<<<"J", "a", "n", "e", " ", "D", "o", "e">>,
                              <<"j", "a", "n", "e", "@", "e", "x", "a", "m", "p", "l", "e", ".", "c", "o", "m", ",", " ", "(", "1", "1", ")", " ", "9", "8", "7", "6", "5", "-", "4", "3", "2", "1", ",", " ", "S", "a_tilde", "o", " ", "P", "a", "u", "l", "o", ",", " ", "B", "r", "a", "s", "i", "l">>>>
    /\ contact.location = <<"B", "r", "a", "s", "i", "l">>

\* _parse_skills has just returned.
SkillsDone == pc = "skills"

SkillsBlob == Join(<<" ">>, sections["skills"])

\* The pieces between the occurrences of c, trimmed, the empty ones left out.
TrimmedPieces(s, c) == NonEmpty(StripAll(Pieces(s, c)))

\* Without delimiter each line is one skill: as many skills as lines, the
\* i-th taken from the i-th line.
OnePerLine(ls) ==
    /\ Len(skills) = Len(ls)
    /\ \A i \in DOMAIN ls : Contains(ls[i], skills[i])

\* C9: with a ";" in the space-joined skills text the skills are its pieces
\* between the ";" only; otherwise, with a ",", its pieces between the ",";
\* otherwise one skill per line.  The pieces are trimmed, never empty, and
\* in the order of the text.
C9_SkillsPriority ==
    SkillsDone =>
        /\ ";" \in Range(SkillsBlob) => skills = TrimmedPieces(SkillsBlob, ";")
        /\ (";" \notin Range(SkillsBlob) /\ "," \in Range(SkillsBlob)) =>
               skills = TrimmedPieces(SkillsBlob, ",")
        /\ (";" \notin Range(SkillsBlob) /\ "," \notin Range(SkillsBlob)) =>
               OnePerLine(sections["skills"])
        /\ (";" \in Range(SkillsBlob) \/ "," \in Range(SkillsBlob)) =>
               \A i \in DOMAIN skills : skills[i] /= <<>> /\ Strip(skills[i]) = skills[i]

\* C9's case: ["Python; Go, Rust"] gives ["Python", "Go, Rust"].
C9_Witness ==
    /\ SkillsDone
    /\ sections["skills"] = <<<<"P", "y", "t", "h", "o", "n", ";", " ", "G", "o", ",", " ", "R", "u", "s", "t">>>>
    /\ skills = <<<<"P", "y", "t", "h", "o", "n">>, <<"G", "o", ",", " ", "R", "u", "s", "t">>>>

\* _parse_experience has just returned.
ExperienceDone == pc = "experience"

ExperienceBucket == sections["experience"]

\* Company and role as read off a header: around its first hyphen when it
\* has one, else the whole header and no company.
FirstHyphen(header) == Min({k \in DOMAIN header : header[k] = "-"})
CompanyOf(header) ==
    IF "-" \notin Range(header) THEN None
    ELSE Strip(SubSeq(header, 1, FirstHyphen(header) - 1))
RoleOf(header) ==
    IF "-" \notin Range(header) THEN header
    ELSE Strip(SubSeq(header, FirstHyphen(header) + 1, Len(header)))

HeadedBy(item, header) ==
    item.company = CompanyOf(header) /\ item.role = RoleOf(header)

AcmeHeader == <<"A", "c", "m", "e", " ", "C", "o", "r", "p", " ", "-", " ", "S", "e", "n", "i", "o", "r", " ", "E", "n", "g", "i", "n", "e", "e", "r", " ", "(", "2", "0", "1", "9", " ", "-", " ", "2", "0", "2", "2", ")">>

\* C11: the item of a block has company and role split at the FIRST hyphen
\* of the unmodified header (role keeps the date text), or the whole header
\* as role and no company when the header has no hyphen.
C11_CompanyRole ==
    (ExperienceDone /\ ExperienceBucket /= <<>>) =>
        /\ experiences /= <<>>
        /\ HeadedBy(experiences[1], ExperienceBucket[1])
        /\ \A i \in DOMAIN experiences :
               \E k \in DOMAIN ExperienceBucket : HeadedBy(experiences[i], ExperienceBucket[k])
        /\ ExperienceBucket[1] = AcmeHeader =>
               /\ experiences[1].company = <<"A", "c", "m", "e", " ", "C", "o", "r", "p">>
               /\ experiences[1].role = <<"S", "e", "n", "i", "o", "r", " ", "E", "n", "g", "i", "n", "e", "e", "r", " ", "(", "2", "0", "1", "9", " ", "-", " ", "2", "0", "2", "2", ")">>

\* C11's case: the header with a company, a role and a date range in it.
C11_Witness ==
    /\ ExperienceDone
    /\ ExperienceBucket /= <<>>
    /\ ExperienceBucket[1] = AcmeHeader
    /\ experiences[1].company = <<"A", "c", "m", "e", " ", "C", "o", "r", "p">>
    /\ experiences[1].start_date = <<"2", "0", "1", "9">>

\* The date text matched in a header, None when the date pattern does not match.
DateTextOf(header) == GroupOrNone(header, Search(DATE_PATTERN, header))

\* The lines of a block after its header, minus those that hold the date text.
LinesKept(block, date_text) ==
    IF date_text = None THEN Tail(block)
    ELSE SelectSeq(Tail(block), LAMBDA line : ~Contains(line, date_text))

\* A line without its leading bullet marker and surrounding whitespace.
Unbulleted(line) == Strip(LStrip(Strip(line), {"-", " "}))

\* The highlights of a block: its kept lines, unbulleted, the blank results left out.
HighlightsOf(kept) == NonEmpty([i \in DOMAIN kept |-> Unbulleted(kept[i])])

\* C12: the highlights of a block are its lines after the header, minus the
\* lines holding the date text, each without its bullet marker and
\* surrounding whitespace, in order; a line that is blank after this is
\* left out, so that no highlight is the empty string.
C12_Highlights ==
    (ExperienceDone /\ ExperienceBucket /= <<>>) =>
        /\ experiences /= <<>>
        /\ experiences[1].highlights =
               HighlightsOf(LinesKept(ExperienceBucket, DateTextOf(ExperienceBucket[1])))
        /\ \A i \in DOMAIN experiences :
               \A h \in DOMAIN experiences[i].highlights :
                   experiences[i].highlights[h] /= <<>>

\* _parse_education has just returned.
EducationDone == pc = "education"

\* _parse_education has raised: parse_resume ended with IndexError, which
\* _parse_projects cannot raise for an empty bucket.
EducationRaised ==
    pc = "raised" /\ error = "IndexError" /\ sections["projects"] = <<>>

EducationBucket == sections["education"]

\* The item the fragments of one line give: degree, institution, summary.
ItemOfFragments(item, f) ==
    /\ f /= <<>>
    /\ item.degree = f[1]
    /\ item.institution = (IF Len(f) >= 2 THEN f[2] ELSE None)
    /\ item.summary = (IF Len(f) >= 3 THEN Join(<<",", " ">>, SubSeq(f, 3, Len(f))) ELSE None)

\* C13: _parse_education returns, for every bucket, as many items as the
\* bucket has lines, the i-th built from the fragments of the i-th line:
\* degree the first, institution the second if any, summary the others
\* joined with ", " if any.
C13_OneItemPerLine ==
    /\ ~EducationRaised
    /\ EducationDone =>
           /\ Len(educations) = Len(EducationBucket)
           /\ \A i \in DOMAIN EducationBucket :
                  ItemOfFragments(educations[i], Fragments(EDUCATION_SEPARATOR, EducationBucket[i]))

\* The places of the hyphens and en-dashes in a date text.
DateSeparators(date_text) ==
    {k \in DOMAIN date_text : date_text[k] \in {"-", "endash"}}

\* The dates an item must have for the date text matched in its header.
DatesFor(item, date_text) ==
    IF date_text /= None /\ Cardinality(DateSeparators(date_text)) = 1
    THEN /\ item.start_date = Strip(SubSeq(date_text, 1, Min(DateSeparators(date_text)) - 1))
         /\ item.end_date =
                Strip(SubSeq(date_text, Min(DateSeparators(date_text)) + 1, Len(date_text)))
         /\ item.start_date /= None /\ item.end_date /= None
    ELSE item.start_date = None /\ item.end_date = None

\* C16: start_date and end_date are both present or both absent; both are
\* present exactly when the date pattern matches the header and the matched
\* text holds exactly one hyphen or en-dash, and then they are the trimmed
\* texts before and after it.
C16_DatesTogether ==
    ExperienceDone =>
        /\ \A i \in DOMAIN experiences :
               (experiences[i].start_date = None) <=> (experiences[i].end_date = None)
        /\ ExperienceBucket /= <<>> =>
               DatesFor(experiences[1], DateTextOf(ExperienceBucket[1]))

\* C16's case: a date range written with an en-dash and an open end.
C16_Witness ==
    /\ ExperienceDone
    /\ ExperienceBucket /= <<>>
    /\ ExperienceBucket[1] = <<"J", "a", "n", " ", "2", "0", "1", "9", " ", "endash", " ", "a", "t", "u", "a", "l">>
    /\ experiences[1].start_date = <<"J", "a", "n", " ", "2", "0", "1", "9">>
    /\ experiences[1].end_date = <<"a", "t", "u", "a", "l">>

\* The highlights are those of the kept lines, one for each and in order.
HighlightsFrom(item, kept) ==
    /\ Len(item.highlights) = Len(kept)
    /\ \A h \in DOMAIN kept : Contains(kept[h], item.highlights[h])

\* C15: no line of the experience bucket is blank, so the whole bucket is
\* one block: _parse_experience returns no item for an empty bucket and
\* otherwise exactly one, headed by the first bucket line and with its
\* highlights taken from all the other lines, however many jobs there are.
C15_OneBlock ==
    ExperienceDone =>
        /\ \A k \in DOMAIN ExperienceBucket : Strip(ExperienceBucket[k]) /= <<>>
        /\ ExperienceBucket = <<>> => experiences = <<>>
        /\ ExperienceBucket /= <<>> =>
               /\ Len(experiences) = 1
               /\ HeadedBy(experiences[1], ExperienceBucket[1])
               /\ HighlightsFrom(experiences[1],
                                 LinesKept(ExperienceBucket, DateTextOf(ExperienceBucket[1])))

\* C15's case: two jobs with a blank line between them in the document.
C15_Witness ==
    /\ ExperienceDone
    /\ Contains(file_text, <<"D", "e", "v", "\n", "\n", "D", "e", "v">>)
    /\ ExperienceBucket = <<<<"D", "e", "v">>, <<"D", "e", "v">>>>
    /\ Len(experiences) = 1
    /\ experiences[1].highlights = <<<<"D", "e", "v">>>>

\* The call that has ended gave what every earlier call on the same
\* filename and text gave.
SameAsEarlier ==
    \A k \in DOMAIN earlier :
        (earlier[k].filename = filename /\ earlier[k].file_text = file_text) =>
            /\ earlier[k].error = error
            /\ error = "none" => earlier[k].result = result

\* C14: parse_resume keeps no state between calls: a call on the filename
\* and text of an earlier call ends as that call did, field for field,
\* whatever calls came in between, and no call changes SECTION_KEYWORDS,
\* which is all the module-level state there is.
C14_Stateless ==
    /\ section_keywords = SECTION_KEYWORDS
    /\ Ended => SameAsEarlier

\* C14's case: a text parsed a second time after a call on another text
\* that holds the same line under a heading.
C14_Witness ==
    /\ pc = "returned"
    /\ Len(earlier) = 2
    /\ earlier[1].filename = filename /\ earlier[1].file_text = file_text
    /\ earlier[2].file_text /= file_text
    /\ earlier[2].error = "none"
    /\ result.contact.full_name = <<"a", "n", "a">>
====
